---- MODULE Spec2Model ----
(***************************************************************************)
(* Model of static/app/components/metrics/querySymbol.tsx:                 *)
(*   - getQuerySymbol(index): the label loop, one action per step;         *)
(*   - QuerySymbol: the component that guards against negative ids and     *)
(*     wraps the label in one of two styled variants.                      *)
(* Strings are sequences of one-character strings; '+' on strings is \o.   *)
(* Numbers are JavaScript numbers holding integers far below 2^53, so      *)
(* '%', '/' followed by Math.floor, and '-' are exact integer operations.  *)
(***************************************************************************)
EXTENDS Integers, Sequences, FiniteSets, TLC

\* ---------------------------------------------------------------- bounds
\* Largest index handed to getQuerySymbol / QuerySymbol (covers 701, 702).
MaxIndex == 703
\* Indices range down to -MaxNeg (covers -1, -26 and -27).
MaxNeg == 27
\* Largest index of the call-history specification.
MaxHistIndex == 30
\* Most negative index of the call-history specification.
MaxHistNeg == 2

Indices == (0 - MaxNeg)..MaxIndex
HistIndices == (0 - MaxHistNeg)..MaxHistIndex

\* ------------------------------------------------- JavaScript primitives
\* const indexToChar = 'abcdefghijklmnopqrstuvwxyz';
indexToChar ==
  << "a", "b", "c", "d", "e", "f", "g", "h", "i", "j", "k", "l", "m",
     "n", "o", "p", "q", "r", "s", "t", "u", "v", "w", "x", "y", "z" >>

\* String(undefined), what '+' makes of a missing character.
Undefined == << "u", "n", "d", "e", "f", "i", "n", "e", "d" >>

\* a % n in JavaScript: the remainder takes the sign of the dividend
\* (-1 % 26 is -1, -26 % 26 is -0).
JsRemOffByOne(a, n) == IF a >= 0 THEN a % (n - 1) ELSE 0 - ((0 - a) % (n - 1))
JsRem(a, n) == IF a >= 0 THEN a % n ELSE 0 - ((0 - a) % n)

\* Math.floor(a / n) for integers a and n > 0.
MathCeilDiv(a, n) == 0 - ((0 - a) \div n)
MathFloorDiv(a, n) == a \div n

\* indexToChar[k] + ... : the character at position k as a string, or the
\* text "undefined" when k is not a position of the string (-0 is 0).
CharAtUpper(k) ==
  IF k \in 0..(Len(indexToChar) - 1)
    THEN << IF k = 0 THEN "A" ELSE indexToChar[k + 1] >>
    ELSE Undefined
CharAt(k) ==
  IF k \in 0..(Len(indexToChar) - 1) THEN << indexToChar[k + 1] >> ELSE Undefined

\* ------------------------------------------------- the body of the loop
\* result = indexToChar[i % indexToChar.length] + result;
BodyResultAppend(i, result) == result \o CharAt(JsRem(i, Len(indexToChar)))
BodyResult(i, result) == CharAt(JsRem(i, Len(indexToChar))) \o result

\* i = Math.floor(i / indexToChar.length) - 1;
BodyINaive(i) ==
  IF MathFloorDiv(i, Len(indexToChar)) = 0
    THEN 0 - 1
    ELSE MathFloorDiv(i, Len(indexToChar))
BodyIStuckAtZero(i) ==
  IF i = 0 THEN 0 ELSE MathFloorDiv(i, Len(indexToChar)) - 1
BodyI(i) == MathFloorDiv(i, Len(indexToChar)) - 1

\* } while (i >= 0);
LoopCondStrict(i) == i > 0
LoopCond(i) == i >= 0

\* getQuerySymbol as a pure function: the same body, run to completion.
RECURSIVE Loop(_, _)
Loop(i, result) ==
  LET r == BodyResult(i, result)
      j == BodyI(i)
  IN  IF LoopCond(j) THEN Loop(j, r) ELSE r

getQuerySymbol(index) == Loop(index, << >>)

\* ------------------------------------------------------- the component
\* if (queryId < 0) { return null; }
IsHiddenStrict(queryId) == queryId < 0 - 1
IsHidden(queryId) == queryId < 0

\* hasMetricsNewInputs(organization) ? Symbol : DeprecatedSymbol
Component(flag) == IF flag THEN "Symbol" ELSE "DeprecatedSymbol"

\* What an invocation has handed back: nothing yet, null, a string, or an
\* element <Component><span>{label}</span></Component>.
Pending == [kind |-> "pending", component |-> "", label |-> << >>]
Null == [kind |-> "null", component |-> "", label |-> << >>]
StringValue(s) == [kind |-> "string", component |-> "", label |-> s]
Element(c, s) == [kind |-> "element", component |-> c, label |-> s]

\* ----------------------------------------------------------------- state
VARIABLES
  pc,        \* position in getQuerySymbol: "idle", "body", "while", "return"
  index,     \* the argument of getQuerySymbol      (frame of the call:
  i,         \* let i                                 these four exist
  result,    \* let result                            while pc # "idle")
  iters,     \* number of times the body has run in this call
  caller,    \* "none", "direct" (another module) or "component"
  queryId,   \* the queryId prop of the current or last render
  flag,      \* hasMetricsNewInputs(organization) of that render
  out,       \* what the current or last invocation returned
  memo       \* an earlier completed call kept for comparison (at most one)

vars == << pc, index, i, result, iters, caller, queryId, flag, out, memo >>

\* let result = ''; (a local of each call, not the string left by the last)
ResultAtEntryStale == out.label
ResultAtEntry == << >>

Init ==
  /\ pc = "idle"
  /\ index = 0
  /\ i = 0
  /\ result = << >>
  /\ iters = 0
  /\ caller = "none"
  /\ queryId = 0
  /\ flag = FALSE
  /\ out = Pending
  /\ memo = {}

\* The entry of getQuerySymbol: let result = ''; let i = index; do {
Enter(n) ==
  /\ index' = n
  /\ result' = ResultAtEntry
  /\ i' = n
  /\ iters' = 0
  /\ pc' = "body"

\* Another module calls the exported getQuerySymbol with n.
Call(n) ==
  /\ pc = "idle"
  /\ caller' = "direct"
  /\ queryId' = 0
  /\ flag' = FALSE
  /\ out' = Pending
  /\ Enter(n)
  /\ UNCHANGED memo

\* QuerySymbol is rendered with a queryId that hides it.
RenderHidden(q, f) ==
  /\ pc = "idle"
  /\ IsHidden(q)
  /\ caller' = "component"
  /\ queryId' = q
  /\ flag' = f
  /\ out' = Null
  /\ UNCHANGED << pc, index, i, result, iters, memo >>

\* QuerySymbol is rendered with a queryId that shows a label.
RenderLabel(q, f) ==
  /\ pc = "idle"
  /\ ~IsHidden(q)
  /\ caller' = "component"
  /\ queryId' = q
  /\ flag' = f
  /\ out' = Pending
  /\ Enter(q)
  /\ UNCHANGED memo

\* One run of the body of the do-while.
LoopBody ==
  /\ pc = "body"
  /\ result' = BodyResult(i, result)
  /\ i' = BodyI(i)
  /\ iters' = iters + 1
  /\ pc' = "while"
  /\ UNCHANGED << index, caller, queryId, flag, out, memo >>

\* while (i >= 0) holds: run the body again.
LoopContinue ==
  /\ pc = "while"
  /\ LoopCond(i)
  /\ pc' = "body"
  /\ UNCHANGED << index, i, result, iters, caller, queryId, flag, out, memo >>

\* while (i >= 0) fails: leave the loop.
LoopExit ==
  /\ pc = "while"
  /\ ~LoopCond(i)
  /\ pc' = "return"
  /\ UNCHANGED << index, i, result, iters, caller, queryId, flag, out, memo >>

\* return result; the component wraps it in the selected variant.
Return(keep) ==
  /\ pc = "return"
  /\ pc' = "idle"
  /\ out' = IF caller = "component"
              THEN Element(Component(flag), result)
              ELSE StringValue(result)
  /\ memo' = IF keep THEN {[index |-> index, result |-> result]} ELSE memo
  /\ index' = 0
  /\ i' = 0
  /\ result' = << >>
  /\ iters' = 0
  /\ UNCHANGED << caller, queryId, flag >>

Next ==
  \/ \E n \in Indices : Call(n)
  \/ \E q \in Indices, f \in BOOLEAN : RenderHidden(q, f)
  \/ \E q \in Indices, f \in BOOLEAN : RenderLabel(q, f)
  \/ LoopBody
  \/ LoopContinue
  \/ LoopExit
  \/ Return(FALSE)

Spec == Init /\ [][Next]_vars

\* The loop steps are the program running: it does not stop in mid-call.
SpecFair ==
  Init /\ [][Next]_vars /\ WF_vars(LoopBody) /\ WF_vars(LoopContinue)
       /\ WF_vars(LoopExit)

\* A history of calls in which an earlier call's outcome is remembered.
NextCalls ==
  \/ \E n \in HistIndices : Call(n)
  \/ \E q \in HistIndices, f \in BOOLEAN : RenderHidden(q, f)
  \/ \E q \in HistIndices, f \in BOOLEAN : RenderLabel(q, f)
  \/ LoopBody
  \/ LoopContinue
  \/ LoopExit
  \/ \E keep \in BOOLEAN : Return(keep)

SpecCalls == Init /\ [][NextCalls]_vars

TypeOK ==
  /\ pc \in {"idle", "body", "while", "return"}
  /\ caller \in {"none", "direct", "component"}
  /\ flag \in BOOLEAN
  /\ Cardinality(memo) <= 1

\* ------------------------------------------------------------ reference
\* Spreadsheet column names, defined without the loop: the strings over
\* a-z, shorter first, equal lengths alphabetically.
Alphabet ==
  << "a", "b", "c", "d", "e", "f", "g", "h", "i", "j", "k", "l", "m",
     "n", "o", "p", "q", "r", "s", "t", "u", "v", "w", "x", "y", "z" >>

LowercaseLetters == { Alphabet[k] : k \in 1..26 }

LetterPos(c) == CHOOSE k \in 0..25 : Alphabet[k + 1] = c

\* 26 + 26^2 + ... + 26^k: the number of names of length at most k.
RECURSIVE NamesUpTo(_)
NamesUpTo(k) == IF k = 0 THEN 0 ELSE 26 * (NamesUpTo(k - 1) + 1)

RECURSIVE NameLengthFrom(_, _)
NameLengthFrom(n, len) ==
  IF n < NamesUpTo(len) THEN len ELSE NameLengthFrom(n, len + 1)

\* The length of the n-th name (n counted from 0).
NameLength(n) == NameLengthFrom(n, 1)

\* v written in ordinary base 26 with exactly len digits a..z.
RECURSIVE Padded(_, _)
Padded(v, len) ==
  IF len = 0 THEN << >>
  ELSE Padded(v \div 26, len - 1) \o << Alphabet[(v % 26) + 1] >>

\* The n-th column name.
ColumnName(n) == Padded(n - NamesUpTo(NameLength(n) - 1), NameLength(n))

RECURSIVE Base26Value(_)
Base26Value(s) ==
  IF Len(s) = 0 THEN 0
  ELSE 26 * Base26Value(SubSeq(s, 1, Len(s) - 1)) + LetterPos(s[Len(s)])

\* The position of the name s in spreadsheet order.
Rank(s) == NamesUpTo(Len(s) - 1) + Base26Value(s)

\* All names of length 1..k.
StringsUpTo(k) == UNION { [1..len -> LowercaseLetters] : len \in 1..k }

\* s comes strictly before t in spreadsheet order.
Precedes(s, t) ==
  \/ Len(s) < Len(t)
  \/ /\ Len(s) = Len(t)
     /\ \E k \in 1..Len(s) :
          /\ LetterPos(s[k]) < LetterPos(t[k])
          /\ \A j \in 1..(k - 1) : s[j] = t[j]

\* n is 26, 26 + 26^2, 26 + 26^2 + 26^3, ...
IsThreshold(n) == \E k \in 1..NameLength(n) : n = NamesUpTo(k)

InCall == pc \in {"body", "while", "return"}

\* ---------------------------------------------------------------- claims

\* C1: for every index n >= 0 the returned label is the n-th spreadsheet
\* column name; labels of smaller indices come earlier in spreadsheet order;
\* and once the last index of a length is reached, every string of at most
\* that length is the label of some index up to it.
C1_SpreadsheetOrder ==
  (pc = "return" /\ index >= 0) =>
    /\ result = ColumnName(index)
    /\ \A m \in 0..(index - 1) : Precedes(getQuerySymbol(m), result)
    /\ IsThreshold(index + 1) =>
         \A s \in StringsUpTo(Len(result)) :
            /\ Rank(s) \in 0..index
            /\ getQuerySymbol(Rank(s)) = s

C1_Witness == pc = "return" /\ index = 701 /\ result = << "z", "z" >>

\* C2: two different non-negative indices never get the same label.
C2_Injective ==
  (pc = "return" /\ index >= 0) =>
    \A m \in 0..MaxIndex : m # index => getQuerySymbol(m) # result

C2_Witness == pc = "return" /\ index = 26 /\ result = << "a", "a" >>

\* C3: for an index n >= 0 the accumulator holds only letters a-z at every
\* step of the loop, and it is non-empty once the body has run, so the
\* returned label is a non-empty string over a-z.
C3_LowercaseNonEmpty ==
  (InCall /\ index >= 0) =>
    /\ \A k \in 1..Len(result) : result[k] \in LowercaseLetters
    /\ pc \in {"while", "return"} => Len(result) >= 1

C3_Witness == pc = "return" /\ index = 52 /\ result = << "b", "a" >>

\* C4: the listed indices get the listed labels.
C4_ConcreteCases ==
  pc = "return" =>
    /\ index = 0 => result = << "a" >>
    /\ index = 1 => result = << "b" >>
    /\ index = 25 => result = << "z" >>
    /\ index = 26 => result = << "a", "a" >>
    /\ index = 27 => result = << "a", "b" >>
    /\ index = 51 => result = << "a", "z" >>
    /\ index = 52 => result = << "b", "a" >>
    /\ index = 701 => result = << "z", "z" >>
    /\ index = 702 => result = << "a", "a", "a" >>

C4_Witness == pc = "return" /\ index = 702 /\ result = << "a", "a", "a" >>

\* C5: the label of n is never shorter than the label of a smaller index;
\* it is longer than the label of n - 1 exactly when n is one of 26,
\* 26 + 26^2, ..., and then longer by exactly one.
C5_MonotonicLength ==
  (pc = "return" /\ index >= 1) =>
    LET before == Len(getQuerySymbol(index - 1))
    IN  /\ \A m \in 0..index : Len(getQuerySymbol(m)) <= Len(result)
        /\ (Len(result) > before) <=> IsThreshold(index)
        /\ Len(result) > before => Len(result) = before + 1

C5_Witness == pc = "return" /\ index = 702 /\ Len(result) = 3 /\ iters = 3

\* C6: for an index n >= 0 every run of the body strictly decreases i
\* (also when the quotient is 0, where i becomes -1), and every call
\* that has entered the loop reaches the return.
C6_Terminates ==
  /\ [][(pc = "body" /\ index >= 0 /\ pc' = "while") =>
          (i >= 0 /\ i' < i /\ i' >= 0 - 1)]_vars
  /\ (pc = "body" /\ index >= 0) ~> (pc = "return")

C6_Witness == pc = "while" /\ index = 702 /\ i = 0 - 1 /\ iters = 3

\* C7: the component returns null for a queryId < 0 and otherwise an
\* element holding the label of queryId in the variant the flag selects;
\* it never runs getQuerySymbol on a negative argument.
C7_ComponentGuard ==
  caller = "component" =>
    /\ InCall => (index >= 0 /\ index = queryId)
    /\ (pc = "idle" /\ queryId < 0) => out = Null
    /\ (pc = "idle" /\ queryId >= 0) =>
         out = Element(Component(flag), getQuerySymbol(queryId))

C7_Witness ==
  /\ pc = "idle"
  /\ caller = "component"
  /\ queryId = 27
  /\ flag
  /\ out = Element("Symbol", << "a", "b" >>)

\* C8: a call with a negative index is rejected: it never runs the body
\* and never returns a string, so no negative index gets the label of a
\* non-negative index.
C8_NegativeRejected ==
  (InCall /\ index < 0) =>
    /\ iters = 0
    /\ pc # "return"
    /\ \A m \in 0..MaxIndex : getQuerySymbol(m) # result

\* C9: in any history of calls, a call returns the same string as an
\* earlier call with the same index, whatever was called in between; each
\* call starts from a fresh accumulator and from i = index.
C9_Deterministic ==
  /\ (pc = "body" /\ iters = 0) => (result = << >> /\ i = index)
  /\ pc = "return" =>
       \A earlier \in memo : earlier.index = index => earlier.result = result

C9_Witness ==
  /\ pc = "return"
  /\ index = 27
  /\ result = << "a", "b" >>
  /\ memo = {[index |-> 27, result |-> << "a", "b" >>]}
  /\ out = Pending

\* C10: the body runs at least once, each run prepends exactly one letter,
\* the loop goes on only while i >= 0; so the number of runs is the length
\* of the label, the label of n < 26 is the n-th letter, and the label of
\* n >= 26 is the label of floor(n / 26) - 1 followed by letter n mod 26.
C10_LoopShape ==
  (InCall /\ index >= 0) =>
    /\ Len(result) = iters
    /\ pc = "while" => iters >= 1
    /\ (pc = "body" /\ iters > 0) => i >= 0
    /\ pc = "return" =>
         /\ iters >= 1
         /\ i < 0
         /\ index < 26 => result = << Alphabet[index + 1] >>
         /\ index >= 26 =>
              result = getQuerySymbol((index \div 26) - 1)
                         \o << Alphabet[(index % 26) + 1] >>

C10_Witness ==
  /\ pc = "return"
  /\ index = 703
  /\ result = << "a", "a", "b" >>
  /\ iters = 3
====
